---------------------------- MODULE Spec2Model ----------------------------
(***************************************************************************)
(* ConnectSphere server: the real-time layer (src/websocket.js) and the    *)
(* conversation / read-state routes (src/unnamed/part_003, the router      *)
(* mounted at /messages) over the Supabase row store.                      *)
(*                                                                         *)
(* Every `await` of a handler is a point where other handlers run, so a    *)
(* handler is a task with a position (pc) and its locals, and each store   *)
(* query or write is one step.                                             *)
(***************************************************************************)
EXTENDS Integers, Sequences, FiniteSets, TLC

(***************************************************************************)
(* Bounds of the model.                                                    *)
(***************************************************************************)
MaxReq == 2        \* POST /messages/conversations requests
MaxSock == 2       \* socket.io connections
MaxSend == 2       \* send_message handler invocations
MaxFanoutSend == 1 \* of these, the ones that run while rooms are joined and left
MaxPublishComm == 1 \* send_community_message handlers next to a send_message
MaxMsg == 2        \* message rows the store assigns ids to
MaxMark == 2       \* read acknowledgments (both entry points)
MaxList == 1       \* GET /messages/conversations requests
MaxComm == 2       \* community chat handler invocations
MaxProbe == 3      \* heartbeat events counted without a heartbeat_ack
MaxRemoval == 1    \* member removals beside a send_message handler

Users == {"alice", "bob", "carol"}     \* rows of the users table
Ghost == "ghost"                       \* a username with no users row
NoUser == "none"                       \* null / undefined username
Names == Users \cup {Ghost}

ReqIds == 1..MaxReq
Sockets == 1..MaxSock

VARIABLES
    \* ---- the row store (Supabase tables) ----
    conversations,        \* set of [id, type, community_id]
    conversation_members, \* set of [conversation_id, username, role]
    messages,             \* set of [id, conversation_id, sender_username]
    message_reads,        \* set of [message_id, username]
    is_online,            \* users.is_online, by username
    community_members,    \* set of [community_id, username, status]
    nextConvId,           \* serial of conversations.id
    nextMsgId,            \* serial of messages.id
    communities,          \* set of communities.id
    nextCommunityId,      \* serial of communities.id
    \* ---- requests of the conversation routes of /messages in flight ----
    dmReq,
    overlapped,           \* history: two such requests were in flight at once
    \* ---- socket.io connections (src/websocket.js) ----
    sockState,            \* "free" (not yet connected), "open", "closed"
    tokenOf,              \* the user the handshake token belongs to, or NoUser
    currentUsername,      \* currentUsername, also stored as socket.username
    heartbeatInterval,    \* the 30 s interval of the connection is running
    probes,               \* heartbeat events emitted since the last heartbeat_ack
    rooms,                \* the rooms the socket has joined
    authPc,               \* position of the authentication closure
    discPc,               \* position of the disconnect handler
    ackPending,           \* a heartbeat_ack update is in flight
    onlineUsers,          \* Map username -> socket.id (0: no entry)
    inbox,                \* events emitted to the client of each socket
    sendTask,             \* send_message handlers
    \* ---- read state ----
    markTask,             \* mark_read / POST conversations/:id/read handlers
    marked,               \* history: completed acknowledgments <<conv, user, message>>
    listReq,              \* GET /messages/conversations requests
    \* ---- community chat ----
    commTask              \* community chat get-or-create handlers

storeVars == <<conversations, conversation_members, messages, message_reads,
               is_online, community_members, nextConvId, nextMsgId,
               communities, nextCommunityId>>
sockVars == <<sockState, tokenOf, currentUsername, heartbeatInterval, probes, rooms,
              authPc, discPc, ackPending, onlineUsers, inbox>>
dmVars == <<dmReq, overlapped>>
readVars == <<markTask, marked, listReq>>
vars == <<storeVars, sockVars, dmVars, sendTask, readVars, commTask>>

-----------------------------------------------------------------------------
(***************************************************************************)
(* Store helpers.                                                          *)
(***************************************************************************)

\* A conversation_members row and a community_members row.
Member(c, u, role) == [conversation_id |-> c, username |-> u, role |-> role]

CommunityMember(cm, u, role, st) ==
    [community_id |-> cm, username |-> u, role |-> role, status |-> st]

\* ensureUserExists, were it to accept every username.
ensureUserExistsAlways(u) == TRUE

\* ensureUserExists(username): a users row with that username exists.
ensureUserExists(u) == u \in Users

\* conversation_members rows of one conversation, as a set of usernames.
MembersOf(cid) ==
    {m.username : m \in {x \in conversation_members : x.conversation_id = cid}}

\* select conversation_id from conversation_members where username = u
ConvIdsOf(u) ==
    {m.conversation_id : m \in {x \in conversation_members : x.username = u}}

\* isMember, were it to accept every username.
isMemberAlways(cid, u) == TRUE

\* isMember(conversationId, username)
isMember(cid, u) ==
    \E m \in conversation_members : m.conversation_id = cid /\ m.username = u

\* upsert(rows) into conversation_members: the key is (conversation_id,
\* username); a conflicting row is replaced by the new one.
UpsertMembers(table, rows) ==
    {m \in table : ~\E n \in rows : n.conversation_id = m.conversation_id
                                    /\ n.username = m.username} \cup rows

-----------------------------------------------------------------------------
(***************************************************************************)
(* POST /messages/conversations  (get-or-create a dm, create a group)      *)
(***************************************************************************)

IdleReq ==
    [pc |-> "idle", type |-> "none", created_by |-> NoUser, uniq |-> {},
     u2 |-> NoUser, setU1 |-> {}, cands |-> {}, convId |-> 0,
     status |-> 0, reused |-> FALSE, resultId |-> 0, wrote |-> FALSE]

InFlight(r) == dmReq[r].pc \notin {"idle", "done"}

\* Finish request r with a response.
Respond(r, st, isReused, id) ==
    [dmReq[r] EXCEPT !.pc = "done", !.status = st, !.reused = isReused,
                     !.resultId = id, !.setU1 = {}, !.cands = {}]

\* .from("conversations").select("id, type").in("id", commonIds).eq("type","dm")
CandidatesNoTypeFilter(commonIds) ==
    {c.id : c \in {x \in conversations : x.id \in commonIds}}

Candidates(commonIds) ==
    {c.id : c \in {x \in conversations : x.id \in commonIds /\ x.type = "dm"}}

\* The check of the candidate's members, were it without the size.
IsExactPairNoSize(setNames, u1, u2) == u1 \in setNames /\ u2 \in setNames

\* setNames.size === 2 && setNames.has(u1) && setNames.has(u2)
IsExactPair(setNames, u1, u2) ==
    Cardinality(setNames) = 2 /\ u1 \in setNames /\ u2 \in setNames

\* Lines 92-111: field check, uniqMembers, ensureUserExists for each, and for
\* a dm the two-distinct-members check.  members is the body's member list.
PostConversation(r, type, created_by, members) ==
    /\ dmReq[r].pc = "idle"
    /\ \A q \in ReqIds : q < r => dmReq[q].pc # "idle"
    /\ overlapped' = (overlapped \/ \E q \in ReqIds : InFlight(q))
    /\ LET uniqMembers == {created_by} \cup members
           started == [dmReq[r] EXCEPT !.type = type, !.created_by = created_by,
                                       !.uniq = uniqMembers]
       IN  dmReq' = [dmReq EXCEPT ![r] =
             IF created_by = NoUser
               THEN [started EXCEPT !.pc = "done", !.status = 400]
             ELSE IF \E u \in uniqMembers : ~ensureUserExists(u)
               THEN [started EXCEPT !.pc = "done", !.status = 400]
             ELSE IF type = "dm"
               THEN IF Cardinality(uniqMembers) # 2
                      THEN [started EXCEPT !.pc = "done", !.status = 400]
                      ELSE [started EXCEPT !.pc = "convU1",
                              !.u2 = CHOOSE u \in uniqMembers : u # created_by]
             ELSE [started EXCEPT !.pc = "insert"]]
    /\ UNCHANGED <<storeVars, sockVars, sendTask, readVars, commTask>>

\* Lines 113-118: all conversations of u1.
DmSelectConvU1(r) ==
    /\ dmReq[r].pc = "convU1"
    /\ dmReq' = [dmReq EXCEPT ![r].pc = "convU2",
                              ![r].setU1 = ConvIdsOf(dmReq[r].created_by)]
    /\ UNCHANGED <<storeVars, overlapped, sockVars, sendTask, readVars, commTask>>

\* Lines 121-131: conversations of u2, intersected with setU1.
DmSelectConvU2(r) ==
    /\ dmReq[r].pc = "convU2"
    /\ LET commonIds == {id \in ConvIdsOf(dmReq[r].u2) : id \in dmReq[r].setU1}
       IN  dmReq' = [dmReq EXCEPT ![r].setU1 = commonIds,
                       ![r].pc = IF commonIds # {} THEN "candidates" ELSE "insert"]
    /\ UNCHANGED <<storeVars, overlapped, sockVars, sendTask, readVars, commTask>>

\* Lines 133-138: the dm conversations among commonIds.
DmSelectCandidates(r) ==
    /\ dmReq[r].pc = "candidates"
    /\ LET cs == Candidates(dmReq[r].setU1)
       IN  dmReq' = [dmReq EXCEPT ![r].setU1 = {}, ![r].cands = cs,
                       ![r].pc = IF cs # {} THEN "memRows" ELSE "insert"]
    /\ UNCHANGED <<storeVars, overlapped, sockVars, sendTask, readVars, commTask>>

\* Lines 140-152: one iteration of the loop over the candidates (the store
\* returns them in no stated order): read its members, reuse it on a match.
DmCheckCandidate(r) ==
    /\ dmReq[r].pc = "memRows"
    /\ \E c \in dmReq[r].cands :
         dmReq' = [dmReq EXCEPT ![r] =
           IF IsExactPair(MembersOf(c), dmReq[r].created_by, dmReq[r].u2)
             THEN Respond(r, 200, TRUE, c)
             ELSE [dmReq[r] EXCEPT !.cands = @ \ {c},
                     !.pc = IF dmReq[r].cands = {c} THEN "insert" ELSE "memRows"]]
    /\ UNCHANGED <<storeVars, overlapped, sockVars, sendTask, readVars, commTask>>

\* Lines 157-162: insert the conversations row.
DmInsertConversation(r) ==
    /\ dmReq[r].pc = "insert"
    /\ conversations' = conversations \cup
         {[id |-> nextConvId, type |-> dmReq[r].type, community_id |-> 0]}
    /\ nextConvId' = nextConvId + 1
    /\ dmReq' = [dmReq EXCEPT ![r].pc = "members", ![r].convId = nextConvId,
                              ![r].wrote = TRUE]
    /\ UNCHANGED <<conversation_members, messages, message_reads, is_online,
                   community_members, nextMsgId, communities, nextCommunityId,
                   overlapped, sockVars, sendTask, readVars, commTask>>

\* Lines 164-177: upsert the member rows, read the conversation back, 201; or
\* the upsert fails, the handler throws and answers 500: the conversations row
\* it has inserted stays.
DmUpsertMembers(r) ==
    /\ dmReq[r].pc = "members"
    /\ \E error \in BOOLEAN :
         IF ~error
           THEN /\ conversation_members' = UpsertMembers(conversation_members,
                     {Member(dmReq[r].convId, u,
                             IF u = dmReq[r].created_by THEN "admin" ELSE "member")
                      : u \in dmReq[r].uniq})
                /\ dmReq' = [dmReq EXCEPT ![r] = Respond(r, 201, FALSE, dmReq[r].convId)]
           ELSE /\ dmReq' = [dmReq EXCEPT ![r] = Respond(r, 500, FALSE, 0)]
                /\ UNCHANGED conversation_members
    /\ UNCHANGED <<conversations, messages, message_reads, is_online,
                   community_members, nextConvId, nextMsgId, communities,
                   nextCommunityId, overlapped, sockVars, sendTask, readVars,
                   commTask>>

\* part_003 44-53: isAdmin(conversationId, username)
isAdmin(cid, u) ==
    \E m \in conversation_members :
      m.conversation_id = cid /\ m.username = u /\ m.role = "admin"

\* The slot of a request of the conversation routes is free.
StartReq(r) ==
    /\ dmReq[r].pc = "idle"
    /\ \A q \in ReqIds : q < r => dmReq[q].pc # "idle"

\* part_003 420-432: POST /messages/conversations/:id/members by actor: the
\* fields, isAdmin of the actor, ensureUserExists of every new member.  The
\* type of the conversation is not looked at.
AddMembers(r, c, actor, members) ==
    /\ StartReq(r)
    /\ LET started == [IdleReq EXCEPT !.type = "add", !.created_by = actor,
                                      !.uniq = members, !.convId = c]
       IN  dmReq' = [dmReq EXCEPT ![r] =
             IF actor = NoUser \/ members = {}
               THEN [started EXCEPT !.pc = "done", !.status = 400]
             ELSE IF ~isAdmin(c, actor)
               THEN [started EXCEPT !.pc = "done", !.status = 403]
             ELSE IF \E u \in members : ~ensureUserExists(u)
               THEN [started EXCEPT !.pc = "done", !.status = 400]
             ELSE [started EXCEPT !.pc = "addRows"]]
    /\ UNCHANGED <<storeVars, overlapped, sockVars, sendTask, readVars, commTask>>

\* part_003 434-443: the new members are upserted with role member.
AddMembersUpsert(r) ==
    /\ dmReq[r].pc = "addRows"
    /\ conversation_members' = UpsertMembers(conversation_members,
         {Member(dmReq[r].convId, u, "member") : u \in dmReq[r].uniq})
    /\ dmReq' = [dmReq EXCEPT ![r].pc = "done", ![r].status = 200]
    /\ UNCHANGED <<conversations, messages, message_reads, is_online,
                   community_members, nextConvId, nextMsgId, communities,
                   nextCommunityId, overlapped, sockVars, sendTask, readVars,
                   commTask>>

\* part_003 455-466: DELETE /messages/conversations/:id/members/:username by
\* actor: an admin of the conversation, or the member themself.
RemoveMember(r, c, target, actor) ==
    /\ StartReq(r)
    /\ LET started == [IdleReq EXCEPT !.type = "remove", !.created_by = actor,
                                      !.u2 = target, !.convId = c]
       IN  dmReq' = [dmReq EXCEPT ![r] =
             IF actor = NoUser
               THEN [started EXCEPT !.pc = "done", !.status = 400]
             ELSE IF ~(isAdmin(c, actor) \/ actor = target)
               THEN [started EXCEPT !.pc = "done", !.status = 403]
             ELSE [started EXCEPT !.pc = "removeRow"]]
    /\ UNCHANGED <<storeVars, overlapped, sockVars, sendTask, readVars, commTask>>

\* part_003 468-476: the conversation_members row of the target is deleted.
RemoveMemberDelete(r) ==
    /\ dmReq[r].pc = "removeRow"
    /\ conversation_members' =
         {m \in conversation_members :
            ~(m.conversation_id = dmReq[r].convId /\ m.username = dmReq[r].u2)}
    /\ dmReq' = [dmReq EXCEPT ![r].pc = "done", ![r].status = 200]
    /\ UNCHANGED <<conversations, messages, message_reads, is_online,
                   community_members, nextConvId, nextMsgId, communities,
                   nextCommunityId, overlapped, sockVars, sendTask, readVars,
                   commTask>>

-----------------------------------------------------------------------------
(***************************************************************************)
(* src/websocket.js: connections, authentication, presence                 *)
(***************************************************************************)

\* The events the server emits to clients.
Event(type, id, conv, user, on) ==
    [type |-> type, id |-> id, conv |-> conv, user |-> user, on |-> on]

UserStatus(u, on) == Event("user_status", 0, 0, u, on)

\* io.sockets.sockets: the connected sockets.
Connected(s) == sockState[s] = "open"

\* socket.emit, were it io.emit: the event goes to every connected socket.
EmitToEveryone(box, s, ev) ==
    [x \in Sockets |-> IF Connected(x) THEN Append(box[x], ev) ELSE box[x]]

\* socket.emit(ev) on socket s: a closed socket receives nothing.
EmitTo(box, s, ev) ==
    IF Connected(s) THEN [box EXCEPT ![s] = Append(@, ev)] ELSE box

\* socket.broadcast.emit(ev): every connected socket except s.
BroadcastFrom(box, s, ev) ==
    [x \in Sockets |-> IF x # s /\ Connected(x) THEN Append(box[x], ev) ELSE box[x]]

\* onlineUsers.set(username, socket.id): one slot per username.
OnlineUsersSet(map, u, s) == [map EXCEPT ![u] = s]

\* onlineUsers.delete(username)
OnlineUsersDelete(map, u) == [map EXCEPT ![u] = 0]

\* io.on("connection"), lines 21-36: a client connects with a handshake token
\* of user tok (NoUser: no token, or one that supabase.auth.getUser rejects).
Connect(s, tok) ==
    /\ sockState[s] = "free"
    /\ \A q \in Sockets : q < s => sockState[q] # "free"
    /\ sockState' = [sockState EXCEPT ![s] = "open"]
    /\ tokenOf' = [tokenOf EXCEPT ![s] = tok]
    /\ authPc' = [authPc EXCEPT ![s] = IF tok = NoUser THEN "none" ELSE "verify"]
    /\ UNCHANGED <<currentUsername, heartbeatInterval, probes, rooms, discPc, ackPending,
                   onlineUsers, inbox, storeVars, dmVars, sendTask, readVars,
                   commTask>>

\* Lines 40-72: getUser and the users select have returned; the closure binds
\* the username, writes the onlineUsers slot and issues the is_online update.
\* It runs whether or not the socket is still connected.
AuthBind(s) ==
    /\ authPc[s] = "verify"
    /\ currentUsername' = [currentUsername EXCEPT ![s] = tokenOf[s]]
    /\ onlineUsers' = OnlineUsersSet(onlineUsers, tokenOf[s], s)
    /\ authPc' = [authPc EXCEPT ![s] = "update"]
    /\ UNCHANGED <<sockState, tokenOf, heartbeatInterval, probes, rooms, discPc,
                   ackPending, inbox, storeVars, dmVars, sendTask, readVars,
                   commTask>>

\* Lines 69-72: the store applies update({is_online: true}).
AuthUpdate(s) ==
    /\ authPc[s] = "update"
    /\ is_online' = [is_online EXCEPT ![currentUsername[s]] = TRUE]
    /\ authPc' = [authPc EXCEPT ![s] = "emit"]
    /\ UNCHANGED <<conversations, conversation_members, messages, message_reads,
                   community_members, nextConvId, nextMsgId, communities,
                   nextCommunityId, sockState, tokenOf, currentUsername,
                   heartbeatInterval, probes, rooms, discPc, ackPending, onlineUsers,
                   inbox, dmVars, sendTask, readVars, commTask>>

\* Lines 76-89: broadcast user_status online, start the heartbeat interval.
AuthAnnounce(s) ==
    /\ authPc[s] = "emit"
    /\ inbox' = BroadcastFrom(inbox, s, UserStatus(currentUsername[s], TRUE))
    /\ heartbeatInterval' = [heartbeatInterval EXCEPT ![s] = TRUE]
    /\ authPc' = [authPc EXCEPT ![s] = "done"]
    /\ UNCHANGED <<sockState, tokenOf, currentUsername, probes, rooms, discPc,
                   ackPending, onlineUsers, storeVars, dmVars, sendTask,
                   readVars, commTask>>

\* Lines 87-89: the interval fires and emits heartbeat to the client; nothing
\* else happens, however many heartbeats the client has left unanswered. (An
\* emit on a closed socket reaches nobody.)
HeartbeatTick(s) ==
    /\ heartbeatInterval[s]
    /\ Connected(s)
    /\ probes[s] < MaxProbe
    /\ probes' = [probes EXCEPT ![s] = @ + 1]
    /\ UNCHANGED <<sockState, tokenOf, currentUsername, heartbeatInterval, rooms,
                   authPc, discPc, ackPending, onlineUsers, inbox, storeVars,
                   dmVars, sendTask, readVars, commTask>>

\* Lines 98-108: heartbeat_ack from the client; the handler issues the update
\* when the connection is authenticated.
HeartbeatAck(s) ==
    /\ Connected(s)
    /\ currentUsername[s] # NoUser
    /\ ~ackPending[s]
    /\ ackPending' = [ackPending EXCEPT ![s] = TRUE]
    /\ probes' = [probes EXCEPT ![s] = 0]
    /\ UNCHANGED <<sockState, tokenOf, currentUsername, heartbeatInterval, rooms,
                   authPc, discPc, onlineUsers, inbox, storeVars, dmVars,
                   sendTask, readVars, commTask>>

\* Lines 102-108: the store applies update({is_online: true, last_seen}).
HeartbeatAckUpdate(s) ==
    /\ ackPending[s]
    /\ ackPending' = [ackPending EXCEPT ![s] = FALSE]
    /\ is_online' = [is_online EXCEPT ![currentUsername[s]] = TRUE]
    /\ UNCHANGED <<conversations, conversation_members, messages, message_reads,
                   community_members, nextConvId, nextMsgId, communities,
                   nextCommunityId, sockState, tokenOf, currentUsername,
                   heartbeatInterval, probes, rooms, authPc, discPc, onlineUsers, inbox,
                   dmVars, sendTask, readVars, commTask>>

\* Lines 545-569: the connection closes (socket.io has removed the socket from
\* io.sockets.sockets and from its rooms); the handler clears the interval,
\* deletes the username's onlineUsers slot and issues the offline update.
Disconnect(s) ==
    /\ Connected(s)
    /\ sockState' = [sockState EXCEPT ![s] = "closed"]
    /\ rooms' = [rooms EXCEPT ![s] = {}]
    /\ heartbeatInterval' = [heartbeatInterval EXCEPT ![s] = FALSE]
    /\ IF currentUsername[s] # NoUser
         THEN /\ onlineUsers' = OnlineUsersDelete(onlineUsers, currentUsername[s])
              /\ discPc' = [discPc EXCEPT ![s] = "update"]
         ELSE /\ discPc' = [discPc EXCEPT ![s] = "done"]
              /\ UNCHANGED onlineUsers
    /\ UNCHANGED <<tokenOf, currentUsername, probes, authPc, ackPending, inbox,
                   storeVars, dmVars, sendTask, readVars, commTask>>

\* Lines 563-569: the store applies update({is_online: false, last_seen}).
DisconnectUpdate(s) ==
    /\ discPc[s] = "update"
    /\ is_online' = [is_online EXCEPT ![currentUsername[s]] = FALSE]
    /\ discPc' = [discPc EXCEPT ![s] = "emit"]
    /\ UNCHANGED <<conversations, conversation_members, messages, message_reads,
                   community_members, nextConvId, nextMsgId, communities,
                   nextCommunityId, sockState, tokenOf, currentUsername,
                   heartbeatInterval, probes, rooms, authPc, ackPending, onlineUsers,
                   inbox, dmVars, sendTask, readVars, commTask>>

\* Lines 573-580: broadcast user_status offline.
DisconnectAnnounce(s) ==
    /\ discPc[s] = "emit"
    /\ inbox' = BroadcastFrom(inbox, s, UserStatus(currentUsername[s], FALSE))
    /\ discPc' = [discPc EXCEPT ![s] = "done"]
    /\ UNCHANGED <<sockState, tokenOf, currentUsername, heartbeatInterval, probes, rooms,
                   authPc, ackPending, onlineUsers, storeVars, dmVars, sendTask,
                   readVars, commTask>>

-----------------------------------------------------------------------------
(***************************************************************************)
(* src/websocket.js: conversation rooms and send_message                   *)
(***************************************************************************)

ConvRoom(c) == <<"conversation", c>>
CommunityRoom(c) == <<"community_chat", c>>

ConvIds == {c.id : c \in conversations}

NewMessage(m, c) == Event("new_message", m, c, NoUser, FALSE)
MessageSent(m, c) == Event("message_sent", m, c, NoUser, FALSE)
ErrorEvent == Event("error", 0, 0, NoUser, FALSE)

SendIds == 1..MaxSend

\* outsiders records the users who had no conversation_members row of the
\* conversation when the event arrived.
IdleSend ==
    [pc |-> "idle", sock |-> 0, conv |-> 0, sender |-> NoUser, msg |-> 0,
     participants |-> {}, outsiders |-> {}]

\* Lines 116-120: join_conversation; any connected socket may join any room.
JoinConversation(s, c) ==
    /\ Connected(s)
    /\ ConvRoom(c) \notin rooms[s]
    /\ rooms' = [rooms EXCEPT ![s] = @ \cup {ConvRoom(c)}]
    /\ UNCHANGED <<sockState, tokenOf, currentUsername, heartbeatInterval, probes,
                   authPc, discPc, ackPending, onlineUsers, inbox, storeVars,
                   dmVars, sendTask, readVars, commTask>>

\* Lines 123-127: leave_conversation.
LeaveConversation(s, c) ==
    /\ Connected(s)
    /\ ConvRoom(c) \in rooms[s]
    /\ rooms' = [rooms EXCEPT ![s] = @ \ {ConvRoom(c)}]
    /\ UNCHANGED <<sockState, tokenOf, currentUsername, heartbeatInterval, probes,
                   authPc, discPc, ackPending, onlineUsers, inbox, storeVars,
                   dmVars, sendTask, readVars, commTask>>

\* Lines 131-144: send_message arrives on socket s; the membership of the
\* senderUsername of the payload is read; a non-member gets an error event.
SendMessageCheck(t, s, c, senderUsername) ==
    /\ sendTask[t].pc = "idle"
    /\ \A q \in SendIds : q < t => sendTask[q].pc # "idle"
    /\ Connected(s)
    /\ IF isMember(c, senderUsername)
         THEN /\ sendTask' = [sendTask EXCEPT ![t] =
                    [IdleSend EXCEPT !.pc = "insert", !.sock = s, !.conv = c,
                                     !.sender = senderUsername,
                                     !.outsiders = Users \ MembersOf(c)]]
              /\ UNCHANGED inbox
         ELSE /\ sendTask' = [sendTask EXCEPT ![t] =
                    [IdleSend EXCEPT !.pc = "done", !.sock = s, !.conv = c,
                                     !.sender = senderUsername,
                                     !.outsiders = Users \ MembersOf(c)]]
              /\ inbox' = EmitTo(inbox, s, ErrorEvent)
    /\ UNCHANGED <<sockState, tokenOf, currentUsername, heartbeatInterval, probes, rooms,
                   authPc, discPc, ackPending, onlineUsers, storeVars, dmVars,
                   readVars, commTask>>

\* Lines 147-172: the store inserts the message row and assigns its id, or
\* the insert fails and the sender's socket gets an error event.
SendMessageInsert(t) ==
    /\ sendTask[t].pc = "insert"
    /\ \E error \in BOOLEAN :
         IF ~error
           THEN /\ nextMsgId <= MaxMsg
                /\ messages' = messages \cup
                     {[id |-> nextMsgId, conversation_id |-> sendTask[t].conv,
                       sender_username |-> sendTask[t].sender]}
                /\ nextMsgId' = nextMsgId + 1
                /\ sendTask' = [sendTask EXCEPT ![t].pc = "participants",
                                                ![t].msg = nextMsgId]
                /\ UNCHANGED inbox
           ELSE /\ inbox' = EmitTo(inbox, sendTask[t].sock, ErrorEvent)
                /\ sendTask' = [sendTask EXCEPT ![t].pc = "failed"]
                /\ UNCHANGED <<messages, nextMsgId>>
    /\ UNCHANGED <<conversations, conversation_members, message_reads, is_online,
                   community_members, nextConvId, communities, nextCommunityId,
                   sockState, tokenOf, currentUsername, heartbeatInterval, probes,
                   rooms, authPc, discPc, ackPending, onlineUsers, dmVars,
                   readVars, commTask>>

\* Lines 185-188: all participants of the conversation.
SendMessageParticipants(t) ==
    /\ sendTask[t].pc = "participants"
    /\ sendTask' = [sendTask EXCEPT ![t].pc = "emit",
                       ![t].participants = MembersOf(sendTask[t].conv)]
    /\ UNCHANGED <<storeVars, sockVars, dmVars, readVars, commTask>>

\* The direct delivery, were it left out.
DirectTargetsNone(participants) == {}

\* Lines 195-211: the sockets that get the message directly: every connected
\* socket whose socket.username is one of the participants.
DirectTargets(participants) ==
    {x \in Sockets : Connected(x) /\ currentUsername[x] \in participants}

\* Line 214: io.to(roomName): the connected sockets that are in the room, with
\* the rooms as they are after the auto-joins of lines 201-204.
RoomTargets(roomsNow, room) ==
    {x \in Sockets : Connected(x) /\ room \in roomsNow[x]}

\* Lines 191-214: message_sent to the sender, then the direct delivery with
\* the auto-join, then the room broadcast.
SendMessageEmit(t) ==
    /\ sendTask[t].pc = "emit"
    /\ LET c == sendTask[t].conv
           m == sendTask[t].msg
           direct == DirectTargets(sendTask[t].participants)
           joined == [x \in Sockets |->
                        IF x \in direct THEN rooms[x] \cup {ConvRoom(c)} ELSE rooms[x]]
           inRoom == RoomTargets(joined, ConvRoom(c))
       IN  /\ rooms' = joined
           /\ inbox' = [x \in Sockets |->
                 inbox[x]
                 \o (IF x = sendTask[t].sock /\ Connected(x)
                       THEN <<MessageSent(m, c)>> ELSE <<>>)
                 \o (IF x \in direct THEN <<NewMessage(m, c)>> ELSE <<>>)
                 \o (IF x \in inRoom THEN <<NewMessage(m, c)>> ELSE <<>>)]
    /\ sendTask' = [sendTask EXCEPT ![t].pc = "done"]
    /\ UNCHANGED <<sockState, tokenOf, currentUsername, heartbeatInterval, probes,
                   authPc, discPc, ackPending, onlineUsers, storeVars, dmVars,
                   readVars, commTask>>

-----------------------------------------------------------------------------
(***************************************************************************)
(* Read state: messages, mark-read (both entry points), unread counts      *)
(***************************************************************************)

MarkIds == 1..MaxMark
ListIds == 1..MaxList

IdleMark ==
    [pc |-> "idle", via |-> "none", conv |-> 0, user |-> NoUser,
     upTo |-> 0, ids |-> {}, repeat |-> FALSE, status |-> 0]

IdleList ==
    [pc |-> "idle", viewer |-> NoUser, convIds |-> {}, allConvMsgs |-> {},
     unreadByConv |-> {}, raced |-> FALSE]

\* The ids of the messages of one conversation.
MsgIdsOf(c) == {m.id : m \in {x \in messages : x.conversation_id = c}}

\* A list request that has read the messages and not yet the reads sees a
\* change of the messages table as a race (history, for the witnesses).
NoteRace(reqs) ==
    [l \in ListIds |-> IF reqs[l].pc = "reads" THEN [reqs[l] EXCEPT !.raced = TRUE]
                                              ELSE reqs[l]]

\* POST /messages/conversations/:id/messages, lines 530-562: the sender must
\* be a member; the store inserts the row and assigns the next id.  (No step
\* of the read-state specification writes conversation_members, so the
\* membership read and the insert are one step here.)
PostMessage(c, sender_username) ==
    /\ isMember(c, sender_username)
    /\ nextMsgId <= MaxMsg
    /\ messages' = messages \cup
         {[id |-> nextMsgId, conversation_id |-> c,
           sender_username |-> sender_username]}
    /\ nextMsgId' = nextMsgId + 1
    /\ listReq' = NoteRace(listReq)
    /\ UNCHANGED <<conversations, conversation_members, message_reads, is_online,
                   community_members, nextConvId, communities, nextCommunityId,
                   sockVars, dmVars, sendTask, markTask, marked, commTask>>

\* DELETE /messages/conversations/:id/messages/:messageId, lines 693-713: the
\* author deletes the message row; the handler deletes no message_reads row.
DeleteMessage(c, messageId, actor) ==
    /\ \E m \in messages : /\ m.id = messageId
                           /\ m.conversation_id = c
                           /\ m.sender_username = actor
    /\ messages' = {m \in messages : m.id # messageId}
    /\ listReq' = NoteRace(listReq)
    /\ UNCHANGED <<conversations, conversation_members, message_reads, is_online,
                   community_members, nextConvId, nextMsgId, communities,
                   nextCommunityId, sockVars, dmVars, sendTask, markTask,
                   marked, commTask>>

\* The target ids of a read acknowledgment (websocket.js 238-248, part_003
\* 738-748): the messages of the conversation, up to upToMessageId when that
\* is given (0, like null, is falsy: no bound).
MarkTargetsUnbounded(c, upTo) == MsgIdsOf(c)

MarkTargets(c, upTo) ==
    {id \in MsgIdsOf(c) : upTo = 0 \/ id <= upTo}

\* This acknowledgment repeats a completed one: same conversation, user and
\* message (history, set when the ids are fetched).
Repeats(c, u, upTo) == <<c, u, upTo>> \in marked

\* The completed acknowledgment of task k, if it named a message that its
\* fetch found in the conversation (history).
Completed(k) ==
    IF markTask[k].upTo \in markTask[k].ids
      THEN {<<markTask[k].conv, markTask[k].user, markTask[k].upTo>>} ELSE {}

\* The record of a finished acknowledgment.
DoneMark(k, st) ==
    [IdleMark EXCEPT !.pc = "done", !.via = markTask[k].via, !.status = st,
                     !.repeat = markTask[k].repeat]

\* The upsert, were it to replace the read rows of the user.
UpsertReadsReplacing(table, ids, u) ==
    {r \in table : r.username # u} \cup {[message_id |-> id, username |-> u] : id \in ids}

\* message_reads.upsert(toMark): the key is (message_id, username).
UpsertReads(table, ids, u) ==
    table \cup {[message_id |-> id, username |-> u] : id \in ids}

\* websocket.js 235-248: mark_read arrives on socket s; the ids are fetched.
\* The handler checks neither the socket's identity nor the membership.
MarkReadWs(k, s, c, u, upTo) ==
    /\ markTask[k].pc = "idle"
    /\ \A q \in MarkIds : q < k => markTask[q].pc # "idle"
    /\ Connected(s)
    /\ markTask' = [markTask EXCEPT ![k] =
         [IdleMark EXCEPT !.pc = "upsert", !.via = "ws", !.conv = c,
                          !.user = u, !.upTo = upTo, !.ids = MarkTargets(c, upTo),
                          !.repeat = Repeats(c, u, upTo)]]
    /\ UNCHANGED <<storeVars, sockVars, dmVars, sendTask, marked, listReq, commTask>>

\* part_003 727-735: POST conversations/:id/read; a non-member gets 403.
MarkReadRest(k, c, u, upTo) ==
    /\ markTask[k].pc = "idle"
    /\ \A q \in MarkIds : q < k => markTask[q].pc # "idle"
    /\ markTask' = [markTask EXCEPT ![k] =
         IF isMember(c, u)
           THEN [IdleMark EXCEPT !.pc = "fetch", !.via = "rest", !.conv = c,
                                 !.user = u, !.upTo = upTo]
           ELSE [IdleMark EXCEPT !.pc = "done", !.via = "rest", !.status = 403]]
    /\ UNCHANGED <<storeVars, sockVars, dmVars, sendTask, marked, listReq, commTask>>

\* part_003 737-749: fetch the target ids.
MarkRestFetch(k) ==
    /\ markTask[k].pc = "fetch"
    /\ markTask' = [markTask EXCEPT ![k].pc = "upsert",
         ![k].ids = MarkTargets(markTask[k].conv, markTask[k].upTo),
         ![k].repeat = Repeats(markTask[k].conv, markTask[k].user, markTask[k].upTo)]
    /\ UNCHANGED <<storeVars, sockVars, dmVars, sendTask, marked, listReq, commTask>>

\* websocket.js 250-253, part_003 751-757: upsert a read row for each id
\* (nothing is written for an empty list); the REST handler then answers.
MarkUpsert(k) ==
    /\ markTask[k].pc = "upsert"
    /\ message_reads' = UpsertReads(message_reads, markTask[k].ids, markTask[k].user)
    /\ IF markTask[k].via = "ws"
         THEN /\ markTask' = [markTask EXCEPT ![k].pc = "emit"]
              /\ UNCHANGED marked
         ELSE /\ markTask' = [markTask EXCEPT ![k] = DoneMark(k, 200)]
              /\ marked' = marked \cup Completed(k)
    /\ UNCHANGED <<conversations, conversation_members, messages, is_online,
                   community_members, nextConvId, nextMsgId, communities,
                   nextCommunityId, sockVars, dmVars, sendTask, listReq,
                   commTask>>

\* websocket.js 255-261: messages_read to the conversation's room.
MarkEmit(k) ==
    /\ markTask[k].pc = "emit"
    /\ LET ev == Event("messages_read", markTask[k].upTo, markTask[k].conv,
                       markTask[k].user, FALSE)
       IN  inbox' = [x \in Sockets |->
                       IF x \in RoomTargets(rooms, ConvRoom(markTask[k].conv))
                         THEN Append(inbox[x], ev) ELSE inbox[x]]
    /\ markTask' = [markTask EXCEPT ![k] = DoneMark(k, 0)]
    /\ marked' = marked \cup Completed(k)
    /\ UNCHANGED <<sockState, tokenOf, currentUsername, heartbeatInterval, probes, rooms,
                   authPc, discPc, ackPending, onlineUsers, storeVars, dmVars,
                   sendTask, listReq, commTask>>

\* GET /messages/conversations?user=viewer, lines 185-198: the conversations
\* of the viewer.  (The v_conversation_overview view is not an object of this
\* repository; the request goes on to the fallback of lines 250-293.)
ListConversations(l, viewer) ==
    /\ listReq[l].pc = "idle"
    /\ \A q \in ListIds : q < l => listReq[q].pc # "idle"
    /\ LET convIds == ConvIdsOf(viewer)
       IN  listReq' = [listReq EXCEPT ![l] =
             [IdleList EXCEPT !.viewer = viewer, !.convIds = convIds,
                              !.pc = IF convIds = {} THEN "done" ELSE "msgs"]]
    /\ UNCHANGED <<storeVars, sockVars, dmVars, sendTask, markTask, marked, commTask>>

\* Lines 254-260: all messages of all the viewer's conversations.
ListFallbackMessages(l) ==
    /\ listReq[l].pc = "msgs"
    /\ listReq' = [listReq EXCEPT ![l].pc = "reads",
         ![l].allConvMsgs =
            {[id |-> m.id, conversation_id |-> m.conversation_id] :
               m \in {x \in messages : x.conversation_id \in listReq[l].convIds}}]
    /\ UNCHANGED <<storeVars, sockVars, dmVars, sendTask, markTask, marked, commTask>>

\* Count of the snapshot's messages of conversation c.
SnapshotOf(allConvMsgs, c) == {m \in allConvMsgs : m.conversation_id = c}

\* A fallback that takes the reads of the conversation as the store has them
\* now and subtracts their number from the size of the earlier snapshot.
UnreadTwoQueries(allConvMsgs, viewer, convIds) ==
    {[conversation_id |-> c,
      unread_count |-> Cardinality(SnapshotOf(allConvMsgs, c))
         - Cardinality({r \in message_reads :
               r.username = viewer /\ r.message_id \in MsgIdsOf(c)})]
     : c \in convIds}

\* A fallback whose reads query leaves out .eq("username", viewer).
UnreadAnyReader(allConvMsgs, viewer, convIds) ==
    LET readIdSet == {r.message_id : r \in message_reads}
    IN  {[conversation_id |-> c,
          unread_count |-> Cardinality({m \in SnapshotOf(allConvMsgs, c) :
                                           m.id \notin readIdSet})]
         : c \in convIds}

\* Lines 260-283: the reads of the viewer among the snapshot's ids, then per
\* conversation the number of snapshot messages that are not in readIdSet.
UnreadFallback(allConvMsgs, viewer, convIds) ==
    LET allMsgIds == {m.id : m \in allConvMsgs}
        allReads == {r \in message_reads :
                        r.username = viewer /\ r.message_id \in allMsgIds}
        readIdSet == {r.message_id : r \in allReads}
    IN  {[conversation_id |-> c,
          unread_count |-> Cardinality({m \in SnapshotOf(allConvMsgs, c) :
                                           m.id \notin readIdSet})]
         : c \in convIds}

\* Lines 263-283: the reads query and the counts; the request is answered.
ListFallbackReads(l) ==
    /\ listReq[l].pc = "reads"
    /\ listReq' = [listReq EXCEPT ![l].pc = "done",
         ![l].unreadByConv = UnreadFallback(listReq[l].allConvMsgs,
                                            listReq[l].viewer, listReq[l].convIds)]
    /\ UNCHANGED <<storeVars, sockVars, dmVars, sendTask, markTask, marked, commTask>>

-----------------------------------------------------------------------------
(***************************************************************************)
(* Community chat: the conversation bound to a community                   *)
(***************************************************************************)

CommIds == 1..MaxComm

IdleComm ==
    [pc |-> "idle", kind |-> "none", sock |-> 0, community |-> 0,
     user |-> NoUser, convId |-> 0, msg |-> 0, members |-> {},
     fresh |-> FALSE,    \* history: no conversation at the arrival of the send
     created |-> FALSE,  \* history: this operation inserted the conversation
     status |-> 0]       \* the answer of a REST route

\* .from("conversations").select("id").eq("community_id", communityId)
ConvsOfCommunity(cm) == {c.id : c \in {x \in conversations : x.community_id = cm}}

\* .from("community_members") ... .eq("status", "approved")
ApprovedMembers(cm) ==
    {m.username : m \in {x \in community_members :
                            x.community_id = cm /\ x.status = "approved"}}

\* The outcome of the .maybeSingle() select of the community's conversation:
\* no row goes on to the insert, one row is taken, several rows are an error.
AfterSelect(task, ifNone, ifOne) ==
    LET found == ConvsOfCommunity(task.community)
    IN  IF found = {} THEN [task EXCEPT !.pc = ifNone]
        ELSE IF Cardinality(found) = 1
          THEN [task EXCEPT !.pc = ifOne, !.convId = CHOOSE c \in found : TRUE]
        ELSE [task EXCEPT !.pc = "done"]

StartComm(k) ==
    /\ commTask[k].pc = "idle"
    /\ \A q \in CommIds : q < k => commTask[q].pc # "idle"

InsertCommunityConversation(cm) ==
    /\ conversations' = conversations \cup
         {[id |-> nextConvId, type |-> "community", community_id |-> cm]}
    /\ nextConvId' = nextConvId + 1

\* part_008 126-152: POST /communities by a PRO user inserts the community.
CreateCommunity(k, created_by, is_premium) ==
    /\ StartComm(k)
    /\ IF is_premium
         THEN /\ communities' = communities \cup {nextCommunityId}
              /\ nextCommunityId' = nextCommunityId + 1
              /\ commTask' = [commTask EXCEPT ![k] =
                   [IdleComm EXCEPT !.pc = "c_member", !.kind = "create",
                      !.community = nextCommunityId, !.user = created_by]]
         ELSE /\ commTask' = [commTask EXCEPT ![k] =
                   [IdleComm EXCEPT !.pc = "done", !.kind = "create",
                                    !.user = created_by]]
              /\ UNCHANGED <<communities, nextCommunityId>>
    /\ UNCHANGED <<conversations, conversation_members, messages, message_reads,
                   is_online, community_members, nextConvId, nextMsgId, sockVars,
                   dmVars, sendTask, readVars>>

\* part_008 154-159: the creator becomes an approved admin member.
CreateCommunityMember(k) ==
    /\ commTask[k].pc = "c_member"
    /\ community_members' = community_members \cup
         {[community_id |-> commTask[k].community, username |-> commTask[k].user,
           role |-> "admin", status |-> "approved"]}
    /\ commTask' = [commTask EXCEPT ![k].pc = "c_conv"]
    /\ UNCHANGED <<conversations, conversation_members, messages, message_reads,
                   is_online, nextConvId, nextMsgId, communities, nextCommunityId,
                   sockVars, dmVars, sendTask, readVars>>

\* part_008 161-175: insert the community's conversation, answer 201.
CreateCommunityConversation(k) ==
    /\ commTask[k].pc = "c_conv"
    /\ InsertCommunityConversation(commTask[k].community)
    /\ commTask' = [commTask EXCEPT ![k].pc = "done", ![k].convId = nextConvId,
                                    ![k].created = TRUE]
    /\ UNCHANGED <<conversation_members, messages, message_reads, is_online,
                   community_members, nextMsgId, communities, nextCommunityId,
                   sockVars, dmVars, sendTask, readVars>>

\* websocket.js 269-288: notify_community_conversation arrives on socket s;
\* the community's conversation is looked up.
NotifySelect(k, s, cm, username) ==
    /\ StartComm(k)
    /\ Connected(s)
    /\ commTask' = [commTask EXCEPT ![k] =
         AfterSelect([IdleComm EXCEPT !.kind = "notify", !.sock = s,
                                      !.community = cm, !.user = username],
                     "n_insert", "n_member")]
    /\ UNCHANGED <<storeVars, sockVars, dmVars, sendTask, readVars>>

\* websocket.js 290-311: no conversation was found, so one is inserted.
NotifyInsert(k) ==
    /\ commTask[k].pc = "n_insert"
    /\ InsertCommunityConversation(commTask[k].community)
    /\ commTask' = [commTask EXCEPT ![k].pc = "n_member", ![k].convId = nextConvId,
                                    ![k].created = TRUE]
    /\ UNCHANGED <<conversation_members, messages, message_reads, is_online,
                   community_members, nextMsgId, communities, nextCommunityId,
                   sockVars, dmVars, sendTask, readVars>>

\* websocket.js 313-337: the user is upserted as a member of the
\* conversation, told community_conversation_ready and joined to the room.
NotifyMember(k) ==
    /\ commTask[k].pc = "n_member"
    /\ conversation_members' = UpsertMembers(conversation_members,
         {[conversation_id |-> commTask[k].convId, username |-> commTask[k].user,
           role |-> "member"]})
    /\ inbox' = EmitTo(inbox, commTask[k].sock,
         Event("community_conversation_ready", 0, commTask[k].convId, NoUser, FALSE))
    /\ rooms' = [rooms EXCEPT ![commTask[k].sock] =
         IF Connected(commTask[k].sock)
           THEN @ \cup {CommunityRoom(commTask[k].community)} ELSE @]
    /\ commTask' = [commTask EXCEPT ![k].pc = "done"]
    /\ UNCHANGED <<conversations, messages, message_reads, is_online,
                   community_members, nextConvId, nextMsgId, communities,
                   nextCommunityId, sockState, tokenOf, currentUsername,
                   heartbeatInterval, probes, authPc, discPc, ackPending, onlineUsers,
                   dmVars, sendTask, readVars>>

\* websocket.js 380-394: send_community_message arrives on socket s; the
\* sender must be an approved member of the community.
CommunitySendCheck(k, s, cm, senderUsername) ==
    /\ StartComm(k)
    /\ Connected(s)
    /\ IF senderUsername \in ApprovedMembers(cm)
         THEN /\ commTask' = [commTask EXCEPT ![k] =
                   [IdleComm EXCEPT !.pc = "s_select", !.kind = "send", !.sock = s,
                      !.community = cm, !.user = senderUsername,
                      !.fresh = (ConvsOfCommunity(cm) = {})]]
              /\ UNCHANGED inbox
         ELSE /\ commTask' = [commTask EXCEPT ![k] =
                   [IdleComm EXCEPT !.pc = "done", !.kind = "send", !.sock = s,
                      !.community = cm, !.user = senderUsername]]
              /\ inbox' = EmitTo(inbox, s, ErrorEvent)
    /\ UNCHANGED <<sockState, tokenOf, currentUsername, heartbeatInterval, probes, rooms,
                   authPc, discPc, ackPending, onlineUsers, storeVars, dmVars,
                   sendTask, readVars>>

\* websocket.js 396-411: look up the community's conversation; several rows
\* make .maybeSingle() fail and the sender gets an error.
CommunitySendSelect(k) ==
    /\ commTask[k].pc = "s_select"
    /\ commTask' = [commTask EXCEPT ![k] =
         AfterSelect(commTask[k], "s_insert", "s_message")]
    /\ inbox' = IF Cardinality(ConvsOfCommunity(commTask[k].community)) > 1
                  THEN EmitTo(inbox, commTask[k].sock, ErrorEvent) ELSE inbox
    /\ UNCHANGED <<sockState, tokenOf, currentUsername, heartbeatInterval, probes, rooms,
                   authPc, discPc, ackPending, onlineUsers, storeVars, dmVars,
                   sendTask, readVars>>

\* websocket.js 412-434: no conversation was found, so one is inserted.
CommunitySendInsert(k) ==
    /\ commTask[k].pc = "s_insert"
    /\ InsertCommunityConversation(commTask[k].community)
    /\ commTask' = [commTask EXCEPT ![k].pc = "s_members", ![k].convId = nextConvId,
                                    ![k].created = TRUE]
    /\ UNCHANGED <<conversation_members, messages, message_reads, is_online,
                   community_members, nextMsgId, communities, nextCommunityId,
                   sockVars, dmVars, sendTask, readVars>>

\* websocket.js 437-441: the approved members of the community.
CommunitySendMembers(k) ==
    /\ commTask[k].pc = "s_members"
    /\ LET allMembers == ApprovedMembers(commTask[k].community)
       IN  commTask' = [commTask EXCEPT ![k].members = allMembers,
             ![k].pc = IF allMembers # {} THEN "s_upsert" ELSE "s_message"]
    /\ UNCHANGED <<storeVars, sockVars, dmVars, sendTask, readVars>>

\* websocket.js 446-462: they are upserted as members of the new conversation.
CommunitySendUpsert(k) ==
    /\ commTask[k].pc = "s_upsert"
    /\ conversation_members' = UpsertMembers(conversation_members,
         {[conversation_id |-> commTask[k].convId, username |-> u, role |-> "member"]
          : u \in commTask[k].members})
    /\ commTask' = [commTask EXCEPT ![k].pc = "s_message", ![k].members = {}]
    /\ UNCHANGED <<conversations, messages, message_reads, is_online,
                   community_members, nextConvId, nextMsgId, communities,
                   nextCommunityId, sockVars, dmVars, sendTask, readVars>>

\* websocket.js 465-489: the store inserts the message row, or the insert
\* fails and the sender's socket gets an error event.
CommunitySendMessage(k) ==
    /\ commTask[k].pc = "s_message"
    /\ \E error \in BOOLEAN :
         IF ~error
           THEN /\ nextMsgId <= MaxMsg
                /\ messages' = messages \cup
                     {[id |-> nextMsgId, conversation_id |-> commTask[k].convId,
                       sender_username |-> commTask[k].user]}
                /\ nextMsgId' = nextMsgId + 1
                /\ commTask' = [commTask EXCEPT ![k].pc = "s_room",
                                                ![k].msg = nextMsgId]
                /\ UNCHANGED inbox
           ELSE /\ inbox' = EmitTo(inbox, commTask[k].sock, ErrorEvent)
                /\ commTask' = [commTask EXCEPT ![k].pc = "failed"]
                /\ UNCHANGED <<messages, nextMsgId>>
    /\ UNCHANGED <<conversations, conversation_members, message_reads, is_online,
                   community_members, nextConvId, communities, nextCommunityId,
                   sockState, tokenOf, currentUsername, heartbeatInterval, probes,
                   rooms, authPc, discPc, ackPending, onlineUsers, dmVars,
                   sendTask, readVars>>

NewCommunityMessage(m, cm) == Event("new_community_message", m, cm, NoUser, FALSE)

\* websocket.js 491-504: new_community_message to the community's room.
CommunitySendRoom(k) ==
    /\ commTask[k].pc = "s_room"
    /\ inbox' = [x \in Sockets |->
         IF x \in RoomTargets(rooms, CommunityRoom(commTask[k].community))
           THEN Append(inbox[x], NewCommunityMessage(commTask[k].msg,
                                                     commTask[k].community))
           ELSE inbox[x]]
    /\ commTask' = [commTask EXCEPT ![k].pc = "s_inboxRead"]
    /\ UNCHANGED <<sockState, tokenOf, currentUsername, heartbeatInterval, probes, rooms,
                   authPc, discPc, ackPending, onlineUsers, storeVars, dmVars,
                   sendTask, readVars>>

\* websocket.js 508-512: the approved members, read again.
CommunitySendInboxRead(k) ==
    /\ commTask[k].pc = "s_inboxRead"
    /\ commTask' = [commTask EXCEPT ![k].pc = "s_inbox",
                      ![k].members = ApprovedMembers(commTask[k].community)]
    /\ UNCHANGED <<storeVars, sockVars, dmVars, sendTask, readVars>>

\* websocket.js 514-525: new_community_message to every connected socket of
\* every approved member.
CommunitySendInbox(k) ==
    /\ commTask[k].pc = "s_inbox"
    /\ inbox' = [x \in Sockets |->
         IF x \in DirectTargets(commTask[k].members)
           THEN Append(inbox[x], NewCommunityMessage(commTask[k].msg,
                                                     commTask[k].community))
           ELSE inbox[x]]
    /\ commTask' = [commTask EXCEPT ![k].pc = "done", ![k].members = {}]
    /\ UNCHANGED <<sockState, tokenOf, currentUsername, heartbeatInterval, probes, rooms,
                   authPc, discPc, ackPending, onlineUsers, storeVars, dmVars,
                   sendTask, readVars>>

\* websocket.js 346-358: join_community_chat; any connected socket may join;
\* an authenticated one is announced to the others in the room.
JoinCommunityChat(s, cm) ==
    /\ Connected(s)
    /\ CommunityRoom(cm) \notin rooms[s]
    /\ rooms' = [rooms EXCEPT ![s] = @ \cup {CommunityRoom(cm)}]
    /\ inbox' = [x \in Sockets |->
         IF /\ currentUsername[s] # NoUser
            /\ x # s
            /\ x \in RoomTargets(rooms, CommunityRoom(cm))
           THEN Append(inbox[x], Event("user_joined_community_chat", 0, cm,
                                       currentUsername[s], FALSE))
           ELSE inbox[x]]
    /\ UNCHANGED <<sockState, tokenOf, currentUsername, heartbeatInterval, probes,
                   authPc, discPc, ackPending, onlineUsers, storeVars,
                   dmVars, sendTask, readVars, commTask>>

\* part_008 35-45: isCommunityAdmin(communityId, username)
isCommunityAdmin(cm, u) ==
    \E m \in community_members :
      m.community_id = cm /\ m.username = u /\ m.role \in {"admin", "moderator"}

\* part_008 519-527: POST /communities/:id/join_requests/:username/approve
\* by actor; only an admin or moderator may approve.
ApproveMember(k, cm, targetUsername, actor) ==
    /\ StartComm(k)
    /\ commTask' = [commTask EXCEPT ![k] =
         IF isCommunityAdmin(cm, actor)
           THEN [IdleComm EXCEPT !.pc = "a_update", !.kind = "approve",
                                 !.community = cm, !.user = targetUsername]
           ELSE [IdleComm EXCEPT !.pc = "done", !.kind = "approve",
                                 !.community = cm, !.user = targetUsername,
                                 !.status = 403]]
    /\ UNCHANGED <<storeVars, sockVars, dmVars, sendTask, readVars>>

\* part_008 529-537: the pending row of the user becomes approved (then the
\* member count of the community is recomputed).
ApproveUpdate(k) ==
    /\ commTask[k].pc = "a_update"
    /\ community_members' =
         {IF /\ m.community_id = commTask[k].community
             /\ m.username = commTask[k].user
             /\ m.status = "pending"
            THEN [m EXCEPT !.status = "approved"] ELSE m : m \in community_members}
    /\ commTask' = [commTask EXCEPT ![k].pc = "a_select"]
    /\ UNCHANGED <<conversations, conversation_members, messages, message_reads,
                   is_online, nextConvId, nextMsgId, communities, nextCommunityId,
                   sockVars, dmVars, sendTask, readVars>>

\* part_008 540-546: the community's conversation is looked up with
\* .single(); no row or several rows give no conv.
ApproveSelect(k) ==
    /\ commTask[k].pc = "a_select"
    /\ LET found == ConvsOfCommunity(commTask[k].community)
       IN  commTask' = [commTask EXCEPT ![k] =
             IF Cardinality(found) = 1
               THEN [@ EXCEPT !.pc = "a_upsert", !.convId = CHOOSE c \in found : TRUE]
               ELSE [@ EXCEPT !.pc = "done", !.status = 200]]
    /\ UNCHANGED <<storeVars, sockVars, dmVars, sendTask, readVars>>

\* part_008 548-560: the user is upserted as a member of the conversation and
\* the route answers "Member approved."
ApproveUpsert(k) ==
    /\ commTask[k].pc = "a_upsert"
    /\ conversation_members' = UpsertMembers(conversation_members,
         {Member(commTask[k].convId, commTask[k].user, "member")})
    /\ commTask' = [commTask EXCEPT ![k].pc = "done", ![k].status = 200]
    /\ UNCHANGED <<conversations, messages, message_reads, is_online,
                   community_members, nextConvId, nextMsgId, communities,
                   nextCommunityId, sockVars, dmVars, sendTask, readVars>>

\* part_008 636-650: DELETE /communities/:id/members/:username by actor;
\* only an admin or moderator may kick, and not themself.
KickMember(k, cm, targetUsername, actor) ==
    /\ StartComm(k)
    /\ commTask' = [commTask EXCEPT ![k] =
         IF ~isCommunityAdmin(cm, actor)
           THEN [IdleComm EXCEPT !.pc = "done", !.kind = "kick", !.community = cm,
                                 !.user = targetUsername, !.status = 403]
         ELSE IF targetUsername = actor
           THEN [IdleComm EXCEPT !.pc = "done", !.kind = "kick", !.community = cm,
                                 !.user = targetUsername, !.status = 400]
         ELSE [IdleComm EXCEPT !.pc = "k_delete", !.kind = "kick",
                               !.community = cm, !.user = targetUsername]]
    /\ UNCHANGED <<storeVars, sockVars, dmVars, sendTask, readVars>>

\* The community_members rows without the row of user u in community cm.
DeleteCommunityMember(cm, u) ==
    {m \in community_members : ~(m.community_id = cm /\ m.username = u)}

\* part_008 652-662: the community_members row is deleted (then the member
\* count is recomputed) and the route answers "Member kicked."
KickDelete(k) ==
    /\ commTask[k].pc = "k_delete"
    /\ community_members' =
         DeleteCommunityMember(commTask[k].community, commTask[k].user)
    /\ commTask' = [commTask EXCEPT ![k].pc = "done", ![k].status = 200]
    /\ UNCHANGED <<conversations, conversation_members, messages, message_reads,
                   is_online, nextConvId, nextMsgId, communities, nextCommunityId,
                   sockVars, dmVars, sendTask, readVars>>

\* part_008 407-426: DELETE /communities/:id/join, a user leaves: the
\* community_members row is deleted and the route answers "Left community."
LeaveCommunity(k, cm, username) ==
    /\ StartComm(k)
    /\ community_members' = DeleteCommunityMember(cm, username)
    /\ commTask' = [commTask EXCEPT ![k] =
         [IdleComm EXCEPT !.pc = "done", !.kind = "leave", !.community = cm,
                          !.user = username, !.status = 200]]
    /\ UNCHANGED <<conversations, conversation_members, messages, message_reads,
                   is_online, nextConvId, nextMsgId, communities, nextCommunityId,
                   sockVars, dmVars, sendTask, readVars>>

-----------------------------------------------------------------------------
(***************************************************************************)
(* Initial states and specifications                                       *)
(***************************************************************************)


\* The process after start-up: no connection, no handler in flight.
InitProcess ==
    /\ dmReq = [r \in ReqIds |-> IdleReq]
    /\ overlapped = FALSE
    /\ sockState = [s \in Sockets |-> "free"]
    /\ tokenOf = [s \in Sockets |-> NoUser]
    /\ currentUsername = [s \in Sockets |-> NoUser]
    /\ heartbeatInterval = [s \in Sockets |-> FALSE]
    /\ probes = [s \in Sockets |-> 0]
    /\ rooms = [s \in Sockets |-> {}]
    /\ authPc = [s \in Sockets |-> "none"]
    /\ discPc = [s \in Sockets |-> "none"]
    /\ ackPending = [s \in Sockets |-> FALSE]
    /\ onlineUsers = [u \in Users |-> 0]
    /\ inbox = [s \in Sockets |-> <<>>]
    /\ sendTask = [t \in SendIds |-> IdleSend]
    /\ markTask = [k \in MarkIds |-> IdleMark]
    /\ marked = {}
    /\ listReq = [l \in ListIds |-> IdleList]
    /\ commTask = [k \in CommIds |-> IdleComm]

\* A store with the users and nothing else.
InitStoreWith(convs, members, comms, commMembers) ==
    /\ conversations = convs
    /\ conversation_members = members
    /\ messages = {}
    /\ message_reads = {}
    /\ is_online = [u \in Users |-> FALSE]
    /\ communities = comms
    /\ community_members = commMembers
    /\ nextConvId = Cardinality(convs) + 1
    /\ nextMsgId = 1
    /\ nextCommunityId = Cardinality(comms) + 1

Init == InitProcess /\ InitStoreWith({}, {}, {}, {})

\* ---- POST /messages/conversations over an empty store ----
NextDm ==
    \/ \E r \in ReqIds, type \in {"dm", "group"}, created_by \in Names \cup {NoUser},
          members \in SUBSET Names :
            PostConversation(r, type, created_by, members)
    \/ \E r \in ReqIds : DmSelectConvU1(r)
    \/ \E r \in ReqIds : DmSelectConvU2(r)
    \/ \E r \in ReqIds : DmSelectCandidates(r)
    \/ \E r \in ReqIds : DmCheckCandidate(r)
    \/ \E r \in ReqIds : DmInsertConversation(r)
    \/ \E r \in ReqIds : DmUpsertMembers(r)

SpecDm == Init /\ [][NextDm]_vars

\* ---- connections, presence and send_message; the store holds one group
\* ---- conversation of two or three of the users ----
InitWs ==
    /\ InitProcess
    /\ \E ms \in {x \in SUBSET Users : Cardinality(x) >= 2} :
         InitStoreWith({[id |-> 1, type |-> "group", community_id |-> 0]},
                       {Member(1, u, "member") : u \in ms}, {}, {})

NextPresence ==
    \/ \E s \in Sockets, tok \in Users \cup {NoUser} : Connect(s, tok)
    \/ \E s \in Sockets : AuthBind(s)
    \/ \E s \in Sockets : AuthUpdate(s)
    \/ \E s \in Sockets : AuthAnnounce(s)
    \/ \E s \in Sockets : HeartbeatTick(s)
    \/ \E s \in Sockets : HeartbeatAck(s)
    \/ \E s \in Sockets : HeartbeatAckUpdate(s)
    \/ \E s \in Sockets : Disconnect(s)
    \/ \E s \in Sockets : DisconnectUpdate(s)
    \/ \E s \in Sockets : DisconnectAnnounce(s)

SpecPresence == Init /\ [][NextPresence]_vars

NextFanout ==
    \/ \E s \in Sockets, tok \in Users \cup {NoUser} : Connect(s, tok)
    \/ \E s \in Sockets : AuthBind(s)
    \/ \E s \in Sockets : Disconnect(s)
    \/ \E s \in Sockets, c \in ConvIds : JoinConversation(s, c)
    \/ \E s \in Sockets, c \in ConvIds : LeaveConversation(s, c)
    \/ \E t \in 1..MaxFanoutSend, s \in Sockets, c \in ConvIds, u \in Users :
          SendMessageCheck(t, s, c, u)
    \/ \E t \in SendIds : SendMessageInsert(t)
    \/ \E t \in SendIds : SendMessageParticipants(t)
    \/ \E t \in SendIds : SendMessageEmit(t)

SpecFanout == InitWs /\ [][NextFanout]_vars

\* ---- concurrent send_message handlers on authenticated connections ----
NextOrder ==
    \/ \E s \in Sockets, tok \in Users : Connect(s, tok)
    \/ \E s \in Sockets : AuthBind(s)
    \/ \E t \in SendIds, s \in Sockets, c \in ConvIds, u \in Users :
          SendMessageCheck(t, s, c, u)
    \/ \E t \in SendIds : SendMessageInsert(t)
    \/ \E t \in SendIds : SendMessageParticipants(t)
    \/ \E t \in SendIds : SendMessageEmit(t)

SpecOrder == InitWs /\ [][NextOrder]_vars

\* ---- read state; the store holds a dm of alice and bob and a group of
\* ---- alice and carol ----
InitRead ==
    /\ InitProcess
    /\ InitStoreWith({[id |-> 1, type |-> "dm", community_id |-> 0],
                      [id |-> 2, type |-> "group", community_id |-> 0]},
                     {Member(1, "alice", "admin"), Member(1, "bob", "member"),
                      Member(2, "alice", "admin"), Member(2, "carol", "member")},
                     {}, {})

\* The users that send, acknowledge and list: alice is in both conversations,
\* bob in the first only.
Readers == {"alice", "bob"}

NextMark ==
    \/ \E s \in Sockets : Connect(s, NoUser)
    \/ \E c \in ConvIds, u \in Readers : PostMessage(c, u)
    \/ \E c \in ConvIds, m \in 1..MaxMsg, u \in Readers : DeleteMessage(c, m, u)
    \/ \E k \in MarkIds, s \in Sockets, c \in ConvIds, u \in Readers, upTo \in 0..MaxMsg :
          MarkReadWs(k, s, c, u, upTo)
    \/ \E k \in MarkIds, c \in ConvIds, u \in Readers, upTo \in 0..MaxMsg :
          MarkReadRest(k, c, u, upTo)
    \/ \E k \in MarkIds : MarkRestFetch(k)
    \/ \E k \in MarkIds : MarkUpsert(k)
    \/ \E k \in MarkIds : MarkEmit(k)

SpecMark == InitRead /\ [][NextMark]_vars

NextUnread ==
    \/ \E c \in ConvIds, u \in Readers : PostMessage(c, u)
    \/ \E c \in ConvIds, m \in 1..MaxMsg, u \in Readers : DeleteMessage(c, m, u)
    \/ \E k \in MarkIds, c \in ConvIds, u \in Readers, upTo \in 0..MaxMsg :
          MarkReadRest(k, c, u, upTo)
    \/ \E k \in MarkIds : MarkRestFetch(k)
    \/ \E k \in MarkIds : MarkUpsert(k)
    \/ \E l \in ListIds, viewer \in Readers : ListConversations(l, viewer)
    \/ \E l \in ListIds : ListFallbackMessages(l)
    \/ \E l \in ListIds : ListFallbackReads(l)

SpecUnread == InitRead /\ [][NextUnread]_vars

\* ---- community chat; the store holds community 1, created before chat
\* ---- existed, with two approved members and one pending request ----
InitCommunity ==
    /\ InitProcess
    /\ InitStoreWith({}, {}, {1},
         {CommunityMember(1, "alice", "admin", "approved"),
          CommunityMember(1, "bob", "member", "approved"),
          CommunityMember(1, "carol", "member", "pending")})

NextCommunity ==
    \/ \E s \in Sockets : Connect(s, NoUser)
    \/ \E k \in CommIds, u \in Users, p \in BOOLEAN : CreateCommunity(k, u, p)
    \/ \E k \in CommIds : CreateCommunityMember(k)
    \/ \E k \in CommIds : CreateCommunityConversation(k)
    \/ \E k \in CommIds, s \in Sockets, cm \in communities, u \in Users :
          NotifySelect(k, s, cm, u)
    \/ \E k \in CommIds : NotifyInsert(k)
    \/ \E k \in CommIds : NotifyMember(k)
    \/ \E k \in CommIds, s \in Sockets, cm \in communities, u \in Users :
          CommunitySendCheck(k, s, cm, u)
    \/ \E k \in CommIds : CommunitySendSelect(k)
    \/ \E k \in CommIds : CommunitySendInsert(k)
    \/ \E k \in CommIds : CommunitySendMembers(k)
    \/ \E k \in CommIds : CommunitySendUpsert(k)
    \/ \E k \in CommIds : CommunitySendMessage(k)
    \/ \E k \in CommIds : CommunitySendRoom(k)
    \/ \E k \in CommIds : CommunitySendInboxRead(k)
    \/ \E k \in CommIds : CommunitySendInbox(k)
    \/ \E s \in Sockets, cm \in communities : JoinCommunityChat(s, cm)

SpecCommunity == InitCommunity /\ [][NextCommunity]_vars

\* ---- both publish handlers; the store holds a group conversation of alice
\* ---- and bob and community 1 with its members and no conversation ----
InitPublish ==
    /\ InitProcess
    /\ InitStoreWith({[id |-> 1, type |-> "group", community_id |-> 0]},
                     {Member(1, "alice", "admin"), Member(1, "bob", "member")},
                     {1},
                     {CommunityMember(1, "alice", "admin", "approved"),
                      CommunityMember(1, "bob", "member", "approved"),
                      CommunityMember(1, "carol", "member", "pending")})

\* The senders of the publish requests: a member and a non-member.
Senders == {"alice", "carol"}

NextPublish ==
    \/ \E s \in Sockets, tok \in Senders \cup {NoUser} : Connect(s, tok)
    \/ \E s \in Sockets : AuthBind(s)
    \/ \E s \in Sockets, cm \in communities : JoinCommunityChat(s, cm)
    \/ \E t \in 1..MaxFanoutSend, s \in Sockets, c \in {1}, u \in Senders :
          SendMessageCheck(t, s, c, u)
    \/ \E t \in SendIds : SendMessageInsert(t)
    \/ \E t \in SendIds : SendMessageParticipants(t)
    \/ \E t \in SendIds : SendMessageEmit(t)
    \/ \E k \in 1..MaxPublishComm, s \in Sockets, cm \in communities, u \in Senders :
          CommunitySendCheck(k, s, cm, u)
    \/ \E k \in CommIds : CommunitySendSelect(k)
    \/ \E k \in CommIds : CommunitySendInsert(k)
    \/ \E k \in CommIds : CommunitySendMembers(k)
    \/ \E k \in CommIds : CommunitySendUpsert(k)
    \/ \E k \in CommIds : CommunitySendMessage(k)
    \/ \E k \in CommIds : CommunitySendRoom(k)
    \/ \E k \in CommIds : CommunitySendInboxRead(k)
    \/ \E k \in CommIds : CommunitySendInbox(k)

SpecPublish == InitPublish /\ [][NextPublish]_vars

\* ---- community membership changes; community 1 has its conversation, of
\* ---- which the approved members alice and bob are members ----
InitMirror ==
    /\ InitProcess
    /\ InitStoreWith({[id |-> 1, type |-> "community", community_id |-> 1]},
                     {Member(1, "alice", "member"), Member(1, "bob", "member")},
                     {1},
                     {CommunityMember(1, "alice", "admin", "approved"),
                      CommunityMember(1, "bob", "member", "approved"),
                      CommunityMember(1, "carol", "member", "pending")})

NextMirror ==
    \/ \E k \in CommIds, cm \in communities, u \in Users, actor \in Users :
          ApproveMember(k, cm, u, actor)
    \/ \E k \in CommIds : ApproveUpdate(k)
    \/ \E k \in CommIds : ApproveSelect(k)
    \/ \E k \in CommIds : ApproveUpsert(k)
    \/ \E k \in CommIds, cm \in communities, u \in Users, actor \in Users :
          KickMember(k, cm, u, actor)
    \/ \E k \in CommIds : KickDelete(k)
    \/ \E k \in CommIds, cm \in communities, u \in Users : LeaveCommunity(k, cm, u)

SpecMirror == InitMirror /\ [][NextMirror]_vars

\* ---- the conversation routes with the member routes; the store holds the
\* ---- dm of alice and bob, created by alice ----
InitMembers ==
    /\ InitProcess
    /\ InitStoreWith({[id |-> 1, type |-> "dm", community_id |-> 0]},
                     {Member(1, "alice", "admin"), Member(1, "bob", "member")},
                     {}, {})

NextMembers ==
    \/ NextDm
    \/ \E r \in ReqIds, c \in ConvIds, actor \in Users \cup {NoUser},
          members \in SUBSET Names : AddMembers(r, c, actor, members)
    \/ \E r \in ReqIds : AddMembersUpsert(r)
    \/ \E r \in ReqIds, c \in ConvIds, target \in Users, actor \in Users \cup {NoUser} :
          RemoveMember(r, c, target, actor)
    \/ \E r \in ReqIds : RemoveMemberDelete(r)

SpecMembers == InitMembers /\ [][NextMembers]_vars

\* ---- send_message with the member-removal route; the store holds one group
\* ---- conversation of all the users, alice its admin; clients join the rooms
\* ---- of the conversations they are members of ----
InitRemoval ==
    /\ InitProcess
    /\ InitStoreWith({[id |-> 1, type |-> "group", community_id |-> 0]},
                     {Member(1, "alice", "admin"), Member(1, "bob", "member"),
                      Member(1, "carol", "member")}, {}, {})

NextRemoval ==
    \/ \E s \in Sockets, tok \in Users : Connect(s, tok)
    \/ \E s \in Sockets : AuthBind(s)
    \/ \E s \in Sockets, c \in ConvIds :
          currentUsername[s] \in MembersOf(c) /\ JoinConversation(s, c)
    \/ \E t \in 1..MaxFanoutSend, s \in Sockets, c \in ConvIds, u \in Users :
          SendMessageCheck(t, s, c, u)
    \/ \E t \in SendIds : SendMessageInsert(t)
    \/ \E t \in SendIds : SendMessageParticipants(t)
    \/ \E t \in SendIds : SendMessageEmit(t)
    \/ \E r \in 1..MaxRemoval, c \in ConvIds, target \in Users,
          actor \in Users \cup {NoUser} : RemoveMember(r, c, target, actor)
    \/ \E r \in ReqIds : RemoveMemberDelete(r)

SpecRemoval == InitRemoval /\ [][NextRemoval]_vars

\* ---- everything together ----
Next ==
    NextDm \/ NextPresence \/ NextFanout \/ NextOrder \/ NextMark \/ NextUnread
    \/ NextCommunity \/ NextPublish \/ NextMirror \/ NextMembers \/ NextRemoval

Spec == Init /\ [][Next]_vars

-----------------------------------------------------------------------------
(***************************************************************************)
(* Properties                                                              *)
(***************************************************************************)

\* The direct conversations whose member set is exactly {a, b}.
DirectOf(a, b) ==
    {c \in conversations : c.type = "dm" /\ MembersOf(c.id) = {a, b}}

\* C1: under any interleaving of get-or-create calls for a pair, at most one
\* direct conversation has the member set {A, B}.
C1_NoDuplicateDirect ==
    \A a \in Users, b \in Users : a # b => Cardinality(DirectOf(a, b)) <= 1

\* A finished get-or-create call for a pair that was answered 200 or 201.
DmAnswered(r) ==
    /\ dmReq[r].pc = "done"
    /\ dmReq[r].type = "dm"
    /\ dmReq[r].status \in {200, 201}

\* C2: when the calls run one after another, the first call for a pair
\* creates the conversation (201, not reused) and every later call for the
\* pair, in either argument order, returns that id as reused (200) and writes
\* no row.
C2_SequentialReuse ==
    ~overlapped =>
      \A j \in ReqIds : DmAnswered(j) =>
        LET earlier == {i \in ReqIds : i < j /\ DmAnswered(i)
                                       /\ dmReq[i].uniq = dmReq[j].uniq}
        IN  IF earlier = {}
              THEN /\ dmReq[j].status = 201
                   /\ ~dmReq[j].reused
                   /\ dmReq[j].wrote
              ELSE /\ dmReq[j].status = 200
                   /\ dmReq[j].reused
                   /\ ~dmReq[j].wrote
                   /\ \A i \in earlier : dmReq[j].resultId = dmReq[i].resultId

\* C2 witness: two calls one after the other for the same pair with the
\* arguments swapped; the second one reused the first one's conversation.
C2_Witness ==
    /\ ~overlapped
    /\ \E i \in ReqIds, j \in ReqIds :
         /\ i < j
         /\ DmAnswered(i) /\ DmAnswered(j)
         /\ dmReq[i].uniq = dmReq[j].uniq
         /\ dmReq[i].created_by # dmReq[j].created_by
         /\ dmReq[i].status = 201
         /\ dmReq[j].reused
         /\ dmReq[j].resultId = dmReq[i].resultId

\* Socket x got new_message for message m of conversation c in this step.
Received(x, m, c) ==
    \E i \in (Len(inbox[x]) + 1)..Len(inbox'[x]) : inbox'[x][i] = NewMessage(m, c)

\* C3: the emit step of send_message delivers new_message to every connected
\* socket of every member of the conversation, joined to the room or not, and
\* to no socket of a user who is not a member.
C3_DeliveryToMembersOnly ==
    [][\A t \in SendIds :
         (sendTask[t].pc = "emit" /\ sendTask'[t].pc = "done") =>
           \A x \in Sockets :
             LET c == sendTask[t].conv
                 m == sendTask[t].msg
             IN  /\ (Connected(x) /\ currentUsername[x] \in MembersOf(c))
                       => Received(x, m, c)
                 /\ (Received(x, m, c) /\ currentUsername[x] # NoUser)
                       => currentUsername[x] \in MembersOf(c)]_vars

\* Another connected socket of the identity of socket s.
OtherLive(s) ==
    \E x \in Sockets : x # s /\ Connected(x) /\ currentUsername[x] = currentUsername[s]

\* C4: the offline update and the offline broadcast of a closing connection
\* happen only when no other connection of the identity is live, and the
\* persisted is_online of an identity does not go from true to false while a
\* connection of it is live.
C4_OfflineOnlyOnLastClose ==
    [][/\ \A s \in Sockets :
            (\/ discPc[s] = "update" /\ discPc'[s] = "emit"
             \/ discPc[s] = "emit" /\ discPc'[s] = "done") => ~OtherLive(s)
       /\ \A u \in Users :
            (is_online[u] /\ ~is_online'[u]) =>
               ~\E x \in Sockets : Connected(x) /\ currentUsername[x] = u]_vars

\* C5: the online broadcast of a registration happens only when no other
\* connection of the identity is live and already registered.
C5_OnlineOnlyOnFirst ==
    [][\A s \in Sockets :
         (authPc[s] = "emit" /\ authPc'[s] = "done") =>
            ~\E x \in Sockets : /\ x # s
                                /\ Connected(x)
                                /\ currentUsername[x] = currentUsername[s]
                                /\ authPc[x] = "done"]_vars

\* C6: the registry entry of an identity accounts for every live
\* authenticated connection of that identity.
C6_RegistryTracksEveryConnection ==
    \A s \in Sockets :
      (Connected(s) /\ currentUsername[s] # NoUser)
         => onlineUsers[currentUsername[s]] = s

\* Unread count of (conversation, user) by the data model: the messages of
\* the conversation minus the user's read rows among them.
UnreadIn(msgs, reads, c, u) ==
    LET ids == {m.id : m \in {x \in msgs : x.conversation_id = c}}
    IN  Cardinality(ids)
          - Cardinality({r \in reads : r.username = u /\ r.message_id \in ids})

\* The count a finished list request reported for conversation c.
Reported(req, c, n) ==
    \E row \in req.unreadByConv : row.conversation_id = c /\ row.unread_count = n

C8_FallbackOneSnapshot ==
    [][\A l \in ListIds :
         (listReq[l].pc = "reads" /\ listReq'[l].pc = "done") =>
            \A c \in listReq[l].convIds :
               LET M == {m.id : m \in SnapshotOf(listReq[l].allConvMsgs, c)}
                   n == Cardinality(M)
                          - Cardinality({r \in message_reads :
                                /\ r.username = listReq[l].viewer
                                /\ r.message_id \in M})
               IN  /\ Reported(listReq'[l], c, n)
                   /\ \A row \in listReq'[l].unreadByConv :
                         row.conversation_id = c =>
                           (row.unread_count >= 0 /\ row.unread_count <= Cardinality(M))]_vars

\* C8 witness: a finished request whose queries were raced by an insert, and
\* the viewer has read a message of its conversations that the snapshot lacks.
C8_Witness ==
    \E l \in ListIds :
       /\ listReq[l].pc = "done"
       /\ listReq[l].raced
       /\ \E m \in messages :
            /\ m.conversation_id \in listReq[l].convIds
            /\ m.id \notin {x.id : x \in listReq[l].allConvMsgs}
            /\ [message_id |-> m.id, username |-> listReq[l].viewer] \in message_reads

\* C9: the upsert of an acknowledgment that repeats a completed one (same
\* conversation, user and message) changes no read row and no unread count.
C9_MarkReadIdempotent ==
    [][\A k \in MarkIds :
         (markTask[k].pc = "upsert" /\ markTask'[k].pc # "upsert" /\ markTask[k].repeat) =>
            /\ message_reads' = message_reads
            /\ \A c \in ConvIds, u \in Users :
                  UnreadIn(messages', message_reads', c, u)
                    = UnreadIn(messages, message_reads, c, u)]_vars

\* C9 witness: a repeated acknowledgment has upserted its rows, after a newer
\* message had arrived in the conversation.
C9_Witness ==
    \E k \in MarkIds :
       /\ markTask[k].repeat
       /\ markTask[k].pc = "emit"
       /\ markTask[k].ids # {}
       /\ \E id \in MsgIdsOf(markTask[k].conv) : id > markTask[k].upTo

\* C10: at most one conversation row is bound to a community.
C10_OneConversationPerCommunity ==
    \A cm \in communities : Cardinality(ConvsOfCommunity(cm)) <= 1

\* C17: a connection that has left the heartbeat unacknowledged for two
\* consecutive intervals is unregistered by the registry: no connection that
\* is still open with its heartbeat interval running has been sent a third
\* heartbeat while the two before it are unanswered.
C17_UnackedProbeUnregisters ==
    \A s \in Sockets :
      (Connected(s) /\ heartbeatInterval[s]) => probes[s] <= 2

\* C18: after the disconnect of a connection, also one that arrives while the
\* authentication of the connection is in progress, the heartbeat interval of
\* the connection is not running and the connection is in no room.
C18_DisconnectStopsTimerAndRooms ==
    \A s \in Sockets :
      sockState[s] = "closed" => (~heartbeatInterval[s] /\ rooms[s] = {})

\* The positions of event ev in the events socket x has received.
Positions(x, ev) == {i \in 1..Len(inbox[x]) : inbox[x][i] = ev}

\* C13: messages of one conversation reach a connection in persistence order:
\* when m1 was persisted before m2 in conversation c (ids are serial), no
\* connection that receives both has new_message for m2 before its first
\* new_message for m1, whatever the interleaving of the send_message handlers.
C13_PersistenceOrder ==
    \A x \in Sockets, c \in ConvIds, m1 \in 1..MaxMsg, m2 \in 1..MaxMsg :
      (m1 < m2 /\ Positions(x, NewMessage(m1, c)) # {})
        => \A i \in Positions(x, NewMessage(m2, c)) :
             \E j \in Positions(x, NewMessage(m1, c)) : j < i

\* C14: send_message whose sender is not a member of the conversation is
\* rejected with an error to the sending socket and has no other effect: no
\* message row, no membership row, no room joined, nothing delivered to any
\* other connection, and the handler has ended.
C14_NonMemberRejected ==
    [][\A t \in SendIds :
         (/\ sendTask[t].pc = "idle"
          /\ sendTask'[t].pc # "idle"
          /\ sendTask'[t].sender \notin MembersOf(sendTask'[t].conv))
         => /\ sendTask'[t].pc = "done"
            /\ sendTask'[t].msg = 0
            /\ messages' = messages
            /\ conversation_members' = conversation_members
            /\ rooms' = rooms
            /\ inbox' = [inbox EXCEPT ![sendTask'[t].sock] = Append(@, ErrorEvent)]]_vars

\* C14 witness: a send_message of a non-member has been rejected and the
\* error is in the sending socket's inbox.
C14_Witness ==
    \E t \in SendIds :
      /\ sendTask[t].pc = "done"
      /\ sendTask[t].msg = 0
      /\ sendTask[t].sender \notin MembersOf(sendTask[t].conv)
      /\ Positions(sendTask[t].sock, ErrorEvent) # {}
      /\ messages = {}

\* The effect C15 allows of a failed message insert on socket s: an error
\* event to s if it is connected, nothing to any other socket.
OnlyErrorTo(s) ==
    /\ messages' = messages
    /\ rooms' = rooms
    /\ \A x \in Sockets :
         inbox'[x] = IF x = s /\ Connected(x) THEN Append(inbox[x], ErrorEvent)
                     ELSE inbox[x]

\* C15: when the insert of the message row fails in send_message or in
\* send_community_message, the publish is aborted: the error goes to the
\* sender's socket only, no message_sent, new_message or new_community_message
\* is emitted to any connection, and the handler takes no further step.
C15_PersistenceFailureAborts ==
    [][/\ \A t \in SendIds :
            /\ (sendTask[t].pc = "insert"
                 /\ sendTask'[t].pc \notin {"insert", "participants"})
                 => (sendTask'[t].pc = "failed" /\ OnlyErrorTo(sendTask[t].sock))
            /\ sendTask[t].pc = "failed" => sendTask'[t] = sendTask[t]
       /\ \A k \in CommIds :
            /\ (commTask[k].pc = "s_message"
                 /\ commTask'[k].pc \notin {"s_message", "s_room"})
                 => (commTask'[k].pc = "failed" /\ OnlyErrorTo(commTask[k].sock))
            /\ commTask[k].pc = "failed" => commTask'[k] = commTask[k]]_vars

\* C15 witness: the insert has failed in a send_message and in a
\* send_community_message, each sender's socket holds the error, and no
\* socket holds a message event.
C15_Witness ==
    /\ \E t \in SendIds : sendTask[t].pc = "failed"
                           /\ Positions(sendTask[t].sock, ErrorEvent) # {}
    /\ \E k \in CommIds : commTask[k].pc = "failed"
                           /\ Positions(commTask[k].sock, ErrorEvent) # {}
    /\ \A x \in Sockets : \A i \in 1..Len(inbox[x]) : inbox[x][i] = ErrorEvent
    /\ messages = {}

\* Socket x has received an event of one of the types that carries message m.
Carries(x, types, m) ==
    \E i \in 1..Len(inbox[x]) : inbox[x][i].type \in types /\ inbox[x][i].id = m

\* C16: the sender learns whether the message was persisted: once a publish
\* handler has ended and the originating connection is still open, that
\* connection holds an event carrying the persisted message with its id when
\* the message was persisted (message_sent for send_message; for
\* send_community_message any event with the message), and an error when it
\* was not.
C16_SenderLearnsOutcome ==
    /\ \A t \in SendIds :
         (sendTask[t].pc \in {"done", "failed"} /\ Connected(sendTask[t].sock))
         => IF sendTask[t].msg # 0
              THEN Carries(sendTask[t].sock, {"message_sent"}, sendTask[t].msg)
              ELSE Positions(sendTask[t].sock, ErrorEvent) # {}
    /\ \A k \in CommIds :
         (/\ commTask[k].kind = "send"
          /\ commTask[k].pc \in {"done", "failed"}
          /\ Connected(commTask[k].sock))
         => IF commTask[k].msg # 0
              THEN Carries(commTask[k].sock,
                           {"message_sent", "new_community_message"}, commTask[k].msg)
              ELSE Positions(commTask[k].sock, ErrorEvent) # {}

\* C19: for one publish of one message, every connection of a member (open
\* and authenticated as a member of the conversation when the message is
\* emitted) receives new_message at least once and at most twice, and every
\* copy carries the id of the message.
C19_AtLeastOnceAtMostTwice ==
    [][\A t \in SendIds :
         (sendTask[t].pc = "emit" /\ sendTask'[t].pc = "done")
         => \A x \in Sockets :
              LET got == {i \in Len(inbox[x]) + 1 .. Len(inbox'[x]) :
                            inbox'[x][i].type = "new_message"}
              IN  /\ \A i \in got :
                       inbox'[x][i] = NewMessage(sendTask[t].msg, sendTask[t].conv)
                  /\ Cardinality(got) <= 2
                  /\ (/\ Connected(x)
                      /\ currentUsername[x] \in MembersOf(sendTask[t].conv))
                       => Cardinality(got) >= 1]_vars

\* C19 witness: a publish has ended and the connection of a member that had
\* not joined the room holds both copies of the message.
C19_Witness ==
    \E t \in SendIds, x \in Sockets :
      /\ sendTask[t].pc = "done"
      /\ sendTask[t].msg # 0
      /\ x # sendTask[t].sock
      /\ currentUsername[x] \in MembersOf(sendTask[t].conv)
      /\ Cardinality(Positions(x, NewMessage(sendTask[t].msg, sendTask[t].conv))) = 2

\* C20: a get-or-create call for a dm whose distinct members are not exactly
\* two (a user with themself included), or one of whose members has no users
\* row, is answered 400 at once: the handler ends without a conversation row
\* or a membership row having been added.
C20_DirectRejectsBadPair ==
    [][\A r \in ReqIds :
         (/\ dmReq[r].pc = "idle"
          /\ dmReq'[r].pc # "idle"
          /\ dmReq'[r].type = "dm"
          /\ \/ Cardinality(dmReq'[r].uniq) # 2
             \/ ~(dmReq'[r].uniq \subseteq Users))
         => /\ dmReq'[r].pc = "done"
            /\ dmReq'[r].status = 400
            /\ ~dmReq'[r].wrote
            /\ conversations' = conversations
            /\ conversation_members' = conversation_members]_vars

\* C20 witness: a dm of a user with themself and a dm with a user that does
\* not exist have both been answered 400, and the store holds no row.
C20_Witness ==
    \E r \in ReqIds, q \in ReqIds :
      /\ dmReq[r].pc = "done" /\ dmReq[r].type = "dm" /\ dmReq[r].status = 400
      /\ dmReq[r].uniq = {"alice"}
      /\ dmReq[q].pc = "done" /\ dmReq[q].type = "dm" /\ dmReq[q].status = 400
      /\ dmReq[q].uniq = {"alice", Ghost}
      /\ conversations = {}
      /\ conversation_members = {}

\* C11: a send_community_message that arrives while the community has no
\* conversation is delivered (to the room or to a member's socket) only after
\* the conversation exists and every approved member of the community is a
\* member of it.
C11_MembersBeforeDelivery ==
    [][\A k \in CommIds :
         (/\ commTask[k].kind = "send"
          /\ commTask[k].fresh
          /\ commTask[k].pc \in {"s_room", "s_inbox"}
          /\ commTask'[k].pc # commTask[k].pc
          /\ inbox' # inbox)
         => /\ commTask[k].convId \in ConvsOfCommunity(commTask[k].community)
            /\ ApprovedMembers(commTask[k].community)
                 \subseteq MembersOf(commTask[k].convId)]_vars

\* The user has no community_members row in the community.
NoRowIn(cm, u) ==
    ~\E m \in community_members : m.community_id = cm /\ m.username = u

\* C12: community membership is mirrored into the membership of the
\* community's conversation: once an approval of U has been answered and U is
\* approved, U is a member of the conversation; once a kick or a leave of U
\* has been answered and U has no row in the community, U is not a member of
\* the conversation.
C12_MembershipMirrored ==
    \A k \in CommIds :
      (commTask[k].pc = "done" /\ commTask[k].status = 200)
      => \A c \in ConvsOfCommunity(commTask[k].community) :
           /\ (/\ commTask[k].kind = "approve"
               /\ commTask[k].user \in ApprovedMembers(commTask[k].community))
                => commTask[k].user \in MembersOf(c)
           /\ (/\ commTask[k].kind \in {"kick", "leave"}
               /\ NoRowIn(commTask[k].community, commTask[k].user))
                => commTask[k].user \notin MembersOf(c)

\* C21: get-or-create of a dm answers reused only with a conversation that,
\* when the handler read it, was of type dm and had exactly the two users as
\* its members: never a group, never a conversation with a third member or
\* without one of the two.
C21_ReuseOnlyExactDirect ==
    [][\A r \in ReqIds :
         (dmReq[r].pc # "done" /\ dmReq'[r].pc = "done" /\ dmReq'[r].reused)
         => /\ \E c \in conversations : c.id = dmReq'[r].resultId /\ c.type = "dm"
            /\ MembersOf(dmReq'[r].resultId) = dmReq'[r].uniq
            /\ Cardinality(dmReq'[r].uniq) = 2]_vars

\* C21 witness: the dm of alice and bob has got carol as a third member, and
\* a get-or-create for alice and bob did not reuse it but created another.
C21_Witness ==
    \E r \in ReqIds :
      /\ dmReq[r].pc = "done" /\ dmReq[r].type = "dm" /\ dmReq[r].status = 201
      /\ dmReq[r].uniq = {"alice", "bob"}
      /\ ~dmReq[r].reused
      /\ MembersOf(1) = {"alice", "bob", "carol"}

\* C22: a create call that has finished, with success or with a failure of
\* the membership write, has left no conversation of its own that lacks one
\* of the requested members.
C22_CreateIsOneUnit ==
    \A r \in ReqIds :
      (/\ dmReq[r].pc = "done"
       /\ dmReq[r].type \in {"dm", "group"}
       /\ dmReq[r].wrote)
      => dmReq[r].uniq \subseteq MembersOf(dmReq[r].convId)

\* C28: a conversation of type dm keeps the two members it was created with:
\* the dm of alice and bob the store started with, and every dm a finished
\* create call has answered with 201.
C28_DirectKeepsTwoMembers ==
    /\ MembersOf(1) = {"alice", "bob"}
    /\ \A r \in ReqIds :
         (dmReq[r].pc = "done" /\ dmReq[r].type = "dm" /\ dmReq[r].status = 201)
         => MembersOf(dmReq[r].resultId) = dmReq[r].uniq

\* C23: a read acknowledgment (conversation, username, upToMessageId) takes
\* as its targets exactly the messages of that conversation with an id up to
\* upToMessageId (all of them without a bound), and its write adds exactly
\* the read rows of these messages for that username: no row for a larger
\* id, another conversation or another user, and no row is removed.
C23_MarkReadFrame ==
    [][\A k \in MarkIds :
         /\ (markTask[k].pc \in {"idle", "fetch"} /\ markTask'[k].pc = "upsert")
             => markTask'[k].ids =
                  {m.id : m \in {x \in messages :
                     /\ x.conversation_id = markTask'[k].conv
                     /\ (markTask'[k].upTo = 0 \/ x.id <= markTask'[k].upTo)}}
         /\ (markTask[k].pc = "upsert" /\ markTask'[k].pc # "upsert")
             => message_reads' = message_reads \cup
                  {[message_id |-> i, username |-> markTask[k].user]
                     : i \in markTask[k].ids}]_vars

\* C23 witness: an acknowledgment up to message 1 has completed in a
\* conversation that also holds message 2; the user has the read row of
\* message 1 and not of message 2, and another user's read row is there.
C23_Witness ==
    \E c \in ConvIds, u \in Readers, v \in Readers :
      /\ <<c, u, 1>> \in marked
      /\ {1, 2} \subseteq MsgIdsOf(c)
      /\ [message_id |-> 1, username |-> u] \in message_reads
      /\ [message_id |-> 2, username |-> u] \notin message_reads
      /\ v # u
      /\ [message_id |-> 2, username |-> v] \in message_reads

\* C24: a read acknowledgment whose username is not a member of the
\* conversation is rejected on arrival, on both entry points: the handler
\* ends, no read row is written and no messages_read is emitted.
C24_NonMemberReadRejected ==
    [][\A k \in MarkIds :
         (/\ markTask[k].pc = "idle"
          /\ markTask'[k].pc # "idle"
          /\ markTask'[k].user \notin MembersOf(markTask'[k].conv))
         => /\ markTask'[k].pc = "done"
            /\ message_reads' = message_reads
            /\ inbox' = inbox]_vars

\* Every connection of the identity has closed and every handler of these
\* connections (authentication, heartbeat_ack update, disconnect) has ended.
AllClosedAndSettled(u) ==
    /\ \E s \in Sockets : tokenOf[s] = u
    /\ \A s \in Sockets :
         tokenOf[s] = u => /\ sockState[s] = "closed"
                           /\ authPc[s] = "done"
                           /\ discPc[s] = "done"
                           /\ ~ackPending[s]

\* C25: once every connection of an identity has closed and every handler in
\* flight for them has completed, the identity is persisted as offline and
\* has no entry in the registry, whatever the order of the store writes and
\* also when a disconnect arrived before the authentication had finished.
C25_PresenceSettlesOffline ==
    \A u \in Users :
      AllClosedAndSettled(u) => (~is_online[u] /\ onlineUsers[u] = 0)

\* C26: a message is persisted with sender S only when the originating
\* connection is authenticated as S (here even: only when it presented the
\* token of S, its authentication possibly still in progress), in
\* send_message and in send_community_message.
C26_SenderIsAuthenticated ==
    [][/\ \A t \in SendIds :
            (sendTask[t].pc = "insert" /\ sendTask'[t].pc = "participants")
            => tokenOf[sendTask[t].sock] = sendTask[t].sender
       /\ \A k \in CommIds :
            (commTask[k].pc = "s_message" /\ commTask'[k].pc = "s_room")
            => tokenOf[commTask[k].sock] = commTask[k].user]_vars


\* C27: every persisted message's sender is a member of the conversation at
\* the moment the message row is inserted, also when a removal of the sender
\* runs between the membership check and the insert.
C27_SenderIsMemberAtPersist ==
    [][\A t \in SendIds :
         (sendTask[t].pc = "insert" /\ sendTask'[t].pc = "participants")
         => sendTask[t].sender \in MembersOf(sendTask[t].conv)]_vars

\* C29: a message whose send_message event arrives after a user was removed
\* from the conversation's membership is delivered to no connection of that
\* user, also when the connection joined the conversation's room while the
\* user was still a member.
C29_RemovedUserGetsNothing ==
    [][\A t \in SendIds :
         (sendTask[t].pc = "emit" /\ sendTask'[t].pc = "done")
         => \A x \in Sockets :
              (/\ x # sendTask[t].sock
               /\ currentUsername[x] \in sendTask[t].outsiders
               /\ currentUsername[x] \notin MembersOf(sendTask[t].conv))
              => inbox'[x] = inbox[x]]_vars


\* An operation of the community chat has run to its end.
Over(task) == task.pc \in {"done", "failed"}

\* C30: when an operation that inserted the community's conversation (the
\* creation of the community, notify_community_conversation or
\* send_community_message) completes, every approved member of the community
\* at that moment is a member of the conversation.
C30_CreationAddsAllApproved ==
    [][\A k \in CommIds :
         (~Over(commTask[k]) /\ Over(commTask'[k]) /\ commTask'[k].created)
         => \A u \in Users :
              (\E m \in community_members' :
                  /\ m.community_id = commTask'[k].community
                  /\ m.username = u
                  /\ m.status = "approved")
              => \E m \in conversation_members' :
                   m.conversation_id = commTask'[k].convId /\ m.username = u]_vars

=============================================================================
